---- MODULE Spec2Model ----
(***************************************************************************)
(* One-dimensional Perlin noise (src/perlin.py) and the interactive viewer *)
(* that drives it (src/perlintoy.py).                                      *)
(*                                                                         *)
(* Numbers.  Python's float arithmetic is modelled exactly, on rationals   *)
(* [n |-> numerator, d |-> denominator] kept in lowest terms with d > 0.   *)
(* Python's integers are unbounded two's complement numbers; where the     *)
(* code shifts and masks them they are modelled as bit vectors (see Bits). *)
(***************************************************************************)
EXTENDS Integers, Sequences, FiniteSets, TLC

VARIABLES
    ctor,             \* arguments of the latest Perlin(...) construction
    gen,              \* the Perlin instance: its fields
    call,             \* noise(x) activations on gen: thread -> frame of locals
    hcall,            \* a _grad(xi, x) activation on gen
    octaves,          \* PerlinRenderer._octaves
    persistence,      \* PerlinRenderer._persistence
    scale,            \* PerlinRenderer._scale
    done,             \* PerlinToy._done
    currentPanSpeed,  \* PerlinToy._currentPanSpeed
    isPanning,        \* PerlinToy._isPanning
    lastPanTime,      \* PerlinToy._lastPanTime: 0, or 1 for a nonzero tick count
    offset,           \* PerlinToy._offset
    pc,               \* position of PerlinToy.go
    pending           \* events fetched by _handleEvents and not yet dispatched

vars == <<ctor, gen, call, hcall, octaves, persistence, scale, done,
          currentPanSpeed, isPanning, lastPanTime, offset, pc, pending>>

noiseVars == <<ctor, gen, call, hcall>>
viewerVars == <<octaves, persistence, scale, done, currentPanSpeed, isPanning,
                lastPanTime, offset, pc, pending>>

(***************************************************************************)
(* Bounds of the model.                                                    *)
(***************************************************************************)
\* most octaves of a generator whose noise(x) is evaluated call by call
MaxOctaves == 8
\* sample coordinates are k/XDen for k in -XSpan..XSpan, XDen in XDens
XSpan == 6
XDens == {3, 4}
\* persistence values of the evaluated generators, in quarters
PersistenceNums == {-8, -4, -2, 0, 1, 2, 3, 4, 6, 8}

\* salts of the evaluated generators
Salts == {1, 7, -3}
\* salts of the generators whose hash is evaluated on every table value
HashSalts == {1, 2, 7, 255, 65537, 8388593, -1, -3, -65537}
\* threads calling noise on one generator, and the octaves they sum
NumThreads == 2
ConcOctaves == 2

(***************************************************************************)
(* Exact arithmetic.                                                       *)
(***************************************************************************)
Abs(a) == IF a < 0 THEN -a ELSE a

RECURSIVE Gcd(_, _)
Gcd(a, b) == IF b = 0 THEN a ELSE Gcd(b, a % b)

Rat(n, d) ==
    LET g == Gcd(Abs(n), Abs(d))
        s == IF d < 0 THEN -1 ELSE 1
    IN  [n |-> s * (n \div g), d |-> s * (d \div g)]

Int2Rat(k) == [n |-> k, d |-> 1]

RatNeg(a) == [n |-> -a.n, d |-> a.d]

RatAdd(a, b) ==
    LET g == Gcd(a.d, b.d)
    IN  Rat(a.n * (b.d \div g) + b.n * (a.d \div g), (a.d \div g) * b.d)

RatSub(a, b) == RatAdd(a, RatNeg(b))

RatMul(a, b) ==
    LET g1 == Gcd(Abs(a.n), b.d)
        g2 == Gcd(Abs(b.n), a.d)
    IN  [n |-> (a.n \div g1) * (b.n \div g2), d |-> (a.d \div g2) * (b.d \div g1)]

\* what a division by zero leaves in place of a value: Python raises
ZeroDivisionError == [n |-> 0, d |-> 0]

\* a / b
RatDiv(a, b) ==
    IF b.n = 0 THEN ZeroDivisionError
    ELSE RatMul(a, [n |-> IF b.n < 0 THEN -b.d ELSE b.d, d |-> Abs(b.n)])

RatLeq(a, b) == a.n * b.d <= b.n * a.d

\* math.floor
Floor(a) == a.n \div a.d

(***************************************************************************)
(* Python integers as bit vectors.  An integer is an infinite two's        *)
(* complement bit string that is constant from some position on: neg is    *)
(* that constant (TRUE for all ones, a negative number), bits the          *)
(* positions whose bit differs from it.                                    *)
(***************************************************************************)
Bits(k) ==
    LET m == IF k >= 0 THEN k ELSE -k - 1
    IN  [neg |-> k < 0, bits |-> {i \in 0..30 : (m \div 2^i) % 2 = 1}]

BitAt(a, i) == (i \in a.bits) # a.neg

\* a ^ b
BitXor(a, b) ==
    [neg |-> a.neg # b.neg,
     bits |-> (a.bits \ b.bits) \cup (b.bits \ a.bits)]

\* a >> k (arithmetic: the sign is kept)
ShiftRight(a, k) ==
    [neg |-> a.neg, bits |-> {i - k : i \in {j \in a.bits : j >= k}}]

\* a << k
ShiftLeft(a, k) ==
    [neg |-> a.neg,
     bits |-> {i + k : i \in a.bits} \cup (IF a.neg THEN 0..(k - 1) ELSE {})]

\* a & b
BitAnd(a, b) ==
    LET n == a.neg /\ b.neg
    IN  [neg |-> n,
         bits |-> {i \in a.bits \cup b.bits : (BitAt(a, i) /\ BitAt(b, i)) # n}]

RECURSIVE SumPow2(_)
SumPow2(S) ==
    IF S = {} THEN 0
    ELSE LET i == CHOOSE j \in S : TRUE IN 2^i + SumPow2(S \ {i})

\* the value of a non-negative bit vector
BitsValue(a) == SumPow2(a.bits)

(***************************************************************************)
(* class Perlin                                                            *)
(***************************************************************************)
Perm == <<151,160,137,91,90,15,
   131,13,201,95,96,53,194,233,7,225,140,36,103,30,69,142,8,99,37,240,21,10,23,
   190, 6,148,247,120,234,75,0,26,197,62,94,252,219,203,117,35,11,32,57,177,33,
   88,237,149,56,87,174,20,125,136,171,168, 68,175,74,165,71,134,139,48,27,166,
   77,146,158,231,83,111,229,122,60,211,133,230,220,105,92,41,55,46,245,40,244,
   102,143,54, 65,25,63,161, 1,216,80,73,209,76,132,187,208, 89,18,169,200,196,
   135,130,116,188,159,86,164,100,109,198,173,186, 3,64,52,217,226,250,124,123,
   5,202,38,147,118,126,255,82,85,212,207,206,59,227,47,16,58,17,182,189,28,42,
   223,183,170,213,119,248,152, 2,44,154,163, 70,221,153,101,155,167, 43,172,9,
   129,22,39,253, 19,98,108,110,79,113,224,232,178,185, 112,104,218,246,97,228,
   251,34,242,193,238,210,144,12,191,179,162,241, 81,51,145,235,249,14,239,107,
   49,192,214, 31,181,199,106,157,184, 84,204,176,115,121,50,45,127, 4,150,254,
   138,236,205,93,222,114,67,29,24,72,243,141,128,195,78,66,215,61,156,180,
   151>>

\* the mask of the table lookups, x0 & 255
TableMask == 255

\* __init__ with the selected hash variant always the unsalted one
PerlinInitAlwaysUnsalted(o, p, s) ==
    [salt |-> s, xs32 |-> "unsalted", octaves |-> o, persistence |-> p,
     perm |-> Perm]

\* Perlin.__init__(octaves, persistence, salt): xs32 is the method _xs32
\* resolves to, the class's salted one unless the instance overrides it
PerlinInit(o, p, s) ==
    [salt |-> s,
     xs32 |-> IF s = 1 THEN "unsalted" ELSE "salted",
     octaves |-> o,
     persistence |-> p,
     perm |-> Perm]

\* _lerp with the sign of a slipped
lerpPlus(a, b, t) == RatAdd(a, RatMul(t, RatAdd(b, a)))

\* _lerp: a+t*(b-a)
lerp(a, b, t) == RatAdd(a, RatMul(t, RatSub(b, a)))

\* _fade: t * t * t * (t * (t * 6 - 15) + 10)
fade(t) ==
    RatMul(RatMul(RatMul(t, t), t),
           RatAdd(RatMul(t, RatSub(RatMul(t, Int2Rat(6)), Int2Rat(15))),
                  Int2Rat(10)))

\* _unsalted_xs32 on a bit vector
unsalted_xs32(x) ==
    LET x1 == BitXor(x, ShiftRight(x, 13))
        x2 == BitXor(x1, ShiftLeft(x1, 17))
        x3 == BitXor(x2, ShiftRight(x2, 5))
    IN  x3

\* the salted _xs32 of the class
salted_xs32(self, x) == unsalted_xs32(Bits(x * self.salt))

\* self._xs32(x): the variant __init__ selected
xs32(self, x) ==
    IF self.xs32 = "unsalted" THEN unsalted_xs32(Bits(x)) ELSE salted_xs32(self, x)

\* the test of _grad taken on bit 32 of the hash
gradTestTopBit(h) == BitAt(h, 32)

\* the test of _grad: hash & 1 is nonzero
gradTest(h) == BitsValue(BitAnd(h, Bits(1))) # 0

\* _grad(xi, x)
grad(self, xi, x) == IF gradTest(xs32(self, xi)) THEN x ELSE RatNeg(x)

\* the table index of lattice point k reduced modulo the table's length
tableIndexModLen(k) == k % Len(Perm)

\* the table index of lattice point k: k & 255
tableIndex(k) == BitsValue(BitAnd(Bits(k), Bits(TableMask)))

\* self._perm[i] (Python lists are 0-based)
permAt(self, i) == self.perm[i + 1]

\* the body of _octave for the lattice cell [x0, x0 + 1], evaluated at x
octaveOn(self, x0, x) ==
    LET x1 == x0 + 1
        a == grad(self, permAt(self, tableIndex(x0)), RatSub(x, Int2Rat(x0)))
        b == grad(self, permAt(self, tableIndex(x1)), RatSub(x, Int2Rat(x1)))
    IN  lerp(a, b, fade(RatSub(x, Int2Rat(x0))))

\* _octave(x)
octave(self, x) == octaveOn(self, Floor(x), x)

\* the two table indices _octave(x) looks up
octaveLookups(x) == {tableIndex(Floor(x)), tableIndex(Floor(x) + 1)}

(***************************************************************************)
(* Perlin.noise(x), statement by statement.  A frame holds the locals of   *)
(* one activation; pc names the line of src/perlin.py about to run.        *)
(***************************************************************************)
NewFrame(x) ==
    [pc |-> "call", x |-> x, n |-> 0, octave |-> 0,
     y |-> Int2Rat(0), maxY |-> Int2Rat(0), amp |-> Int2Rat(0),
     freq |-> Int2Rat(0), ret |-> Int2Rat(0), lookups |-> {}]

Returned(f) == f.pc \in {"done", "raised"}

\* the value returned without the division by the summed amplitudes
noiseReturnRaw(y, maxY) == y

\* line 46: return y/maxY
noiseReturn(y, maxY) == RatDiv(y, maxY)

\* one statement of noise run by the activation f on the instance self:
\* the frame it leaves
noiseStmt(self, f) ==
    CASE f.pc = "call" ->   \* lines 37-41: the locals, and range(0, self._octaves)
           [f EXCEPT !.pc = "for", !.y = Int2Rat(0), !.maxY = Int2Rat(0),
                     !.amp = Int2Rat(1), !.freq = Int2Rat(1),
                     !.n = self.octaves, !.octave = 0]
      [] f.pc = "for" ->    \* line 41: the next octave of the range, or none
           [f EXCEPT !.pc = IF f.octave < f.n THEN "l42" ELSE "l46"]
      [] f.pc = "l42" ->    \* y += amp*self._octave(x*freq)
           [f EXCEPT !.pc = "l43",
                     !.y = RatAdd(f.y, RatMul(f.amp, octave(self, RatMul(f.x, f.freq)))),
                     !.lookups = f.lookups \cup octaveLookups(RatMul(f.x, f.freq))]
      [] f.pc = "l43" ->    \* maxY += amp
           [f EXCEPT !.pc = "l44", !.maxY = RatAdd(f.maxY, f.amp)]
      [] f.pc = "l44" ->    \* freq *= 2
           [f EXCEPT !.pc = "l45", !.freq = RatMul(f.freq, Int2Rat(2))]
      [] f.pc = "l45" ->    \* amp *= self._persistence
           [f EXCEPT !.pc = "for", !.octave = f.octave + 1,
                     !.amp = RatMul(f.amp, self.persistence)]
      [] f.pc = "l46" ->    \* return y/maxY
           [f EXCEPT !.pc = IF f.maxY.n = 0 THEN "raised" ELSE "done",
                     !.ret = noiseReturn(f.y, f.maxY)]

\* the instance after a statement that keeps the running amplitude on it
selfAfterStmtAmpOnSelf(self, f) ==
    IF f.pc = "l45"
    THEN [self EXCEPT !.persistence = RatMul(f.amp, self.persistence)]
    ELSE self

\* the instance after one statement of noise: no statement of noise, _octave,
\* _grad, _xs32, _lerp or _fade assigns to an attribute of self
selfAfterStmt(self, f) == self

\* noise(x) run from call to return with no other activation on the instance
noiseAlone(self, x) ==
    LET RECURSIVE run(_, _)
        run(s, f) == IF Returned(f) THEN f
                     ELSE run(selfAfterStmt(s, f), noiseStmt(s, f))
    IN  run(self, NewFrame(x))

\* a + b and a * b on fractions that are not reduced: the same numbers
FracAdd(a, b) == [n |-> a.n * b.d + b.n * a.d, d |-> a.d * b.d]
FracMul(a, b) == [n |-> a.n * b.n, d |-> a.d * b.d]

\* the amplitude sum noise divides by: maxY after k more octaves, from the
\* accumulator maxY and the amplitude amp (lines 43 and 45 of the loop)
RECURSIVE maxYAfter(_, _, _, _)
maxYAfter(self, k, maxY, amp) ==
    IF k = 0 THEN maxY
    ELSE maxYAfter(self, k - 1, FracAdd(maxY, amp), FracMul(amp, self.persistence))

\* noise(x) raises ZeroDivisionError, whatever x is
noiseRaises(self) ==
    maxYAfter(self, self.octaves, Int2Rat(0), Int2Rat(1)).n = 0

(***************************************************************************)
(* Actions on a generator.                                                 *)
(***************************************************************************)
\* thread t runs the next statement of its noise activation
NoiseStep(t) ==
    /\ ~Returned(call[t])
    /\ call' = [call EXCEPT ![t] = noiseStmt(gen, call[t])]
    /\ gen' = selfAfterStmt(gen, call[t])
    /\ UNCHANGED <<ctor, hcall>>
    /\ UNCHANGED viewerVars

\* _grad(xi, x) is run: the hash of the table value and the signed distance
GradCall ==
    /\ hcall.pc = "call"
    /\ hcall' = [hcall EXCEPT !.pc = "done",
                              !.hash = xs32(gen, hcall.xi),
                              !.ret = grad(gen, hcall.xi, hcall.x)]
    /\ UNCHANGED <<ctor, gen, call>>
    /\ UNCHANGED viewerVars

(***************************************************************************)
(* The viewer's state after PerlinToy.__init__ and the first lines of go.  *)
(***************************************************************************)
\* PerlinToy.__init__: PerlinRenderer(width, height, 10, 2, 0.5)
InitScale == 10
InitOctaves == 2
InitPersistence == Rat(1, 2)
\* the default salt of Perlin.__init__
DefaultSalt == 1
DEFAULT_PAN_SPEED == 500

ViewerInit ==
    /\ octaves = InitOctaves
    /\ persistence = InitPersistence
    /\ scale = InitScale
    /\ done = FALSE
    /\ currentPanSpeed = 0
    /\ isPanning = FALSE
    /\ lastPanTime = 0
    /\ offset = Int2Rat(0)
    /\ pc = "while"
    /\ pending = 0

NoHashCall == [pc |-> "none", xi |-> 0, x |-> Int2Rat(0), hash |-> Bits(0), ret |-> Int2Rat(0)]

(***************************************************************************)
(* SpecNoise: one noise(x) call on a generator of each configuration.      *)
(***************************************************************************)
Persistences == {Rat(k, 4) : k \in PersistenceNums}
Coordinates == {Rat(k, d) : k \in -XSpan..XSpan, d \in XDens}

InitNoise ==
    /\ ctor \in [octaves : 1..MaxOctaves, persistence : Persistences, salt : Salts]
    /\ gen = PerlinInit(ctor.octaves, ctor.persistence, ctor.salt)
    /\ call \in [{1} -> {NewFrame(x) : x \in Coordinates}]
    /\ hcall = NoHashCall
    /\ ViewerInit

NextNoise == \E t \in DOMAIN call : NoiseStep(t)

SpecNoise == InitNoise /\ [][NextNoise]_vars

(***************************************************************************)
(* SpecConc: several threads call noise on one shared generator.           *)
(***************************************************************************)
ConcCoordinates == {Rat(1, 3), Rat(-5, 4)}
ConcPersistences == {Rat(1, 2), Rat(-1, 1)}

InitConc ==
    /\ ctor \in [octaves : 1..ConcOctaves, persistence : ConcPersistences, salt : {7}]
    /\ gen = PerlinInit(ctor.octaves, ctor.persistence, ctor.salt)
    /\ call \in [1..NumThreads -> {NewFrame(x) : x \in ConcCoordinates}]
    /\ hcall = NoHashCall
    /\ ViewerInit

SpecConc == InitConc /\ [][NextNoise]_vars

(***************************************************************************)
(* SpecHash: _grad on every table value, for a generator of each salt.     *)
(***************************************************************************)
InitHash ==
    /\ ctor \in [octaves : {1}, persistence : {Rat(1, 2)}, salt : HashSalts]
    /\ gen = PerlinInit(ctor.octaves, ctor.persistence, ctor.salt)
    /\ call = <<>>
    /\ hcall \in {[NoHashCall EXCEPT !.pc = "call", !.xi = v, !.x = Rat(1, 3)] : v \in 0..255}
    /\ ViewerInit

NextHash == GradCall

SpecHash == InitHash /\ [][NextHash]_vars

(***************************************************************************)
(* The viewer: PerlinRenderer and PerlinToy of src/perlintoy.py.           *)
(*                                                                         *)
(* The text overlay (TextRenderer, _printInfo) and the drawing calls hold  *)
(* no state that the loop reads and are left out.  pygame's event queue is *)
(* the environment: _handleEvents fetches a batch (pygame.event.get()      *)
(* while panning, one event from pygame.event.wait() otherwise); the       *)
(* events of the batch are arbitrary, so the model keeps the number still  *)
(* to dispatch and draws each event when it is dispatched.  get_ticks() is *)
(* the environment too: lastPanTime is kept as 0 or 1 (some nonzero tick   *)
(* count) and the ticks elapsed since it are drawn at each pan step.       *)
(* The persistence is stepped exactly, in tenths.                          *)
(***************************************************************************)
\* bounds of the viewer: the environment sends no event that would take a
\* setting beyond them
MaxViewOctaves == 3
MaxPersistenceSteps == 1
MaxScaleSteps == 2
MaxPanKeys == 1
MaxOffset == 1
MaxBatch == 2
MaxDelta == 1

PAN_EPSILON == Rat(1, 10000)

\* self._panSpeed
panSpeed == DEFAULT_PAN_SPEED

Keys == {"K_ESCAPE", "K_UP", "K_DOWN", "K_PAGEUP", "K_PAGEDOWN", "K_HOME",
         "K_END", "K_LEFT", "K_RIGHT", "K_a"}

\* the events the environment delivers: key events, and one of another type
Events == [type : {"KEYUP", "KEYDOWN"}, key : Keys]
          \cup {[type |-> "MOUSEMOTION", key |-> "none"]}

\* self._keyUpHandlers: key -> the call its lambda makes
keyUpHandlers ==
    "K_ESCAPE" :> [op |-> "_quit", diff |-> Int2Rat(0)]
    @@ "K_UP" :> [op |-> "modifyOctaves", diff |-> Int2Rat(1)]
    @@ "K_DOWN" :> [op |-> "modifyOctaves", diff |-> Int2Rat(-1)]
    @@ "K_PAGEUP" :> [op |-> "modifyPersistence", diff |-> Rat(1, 10)]
    @@ "K_PAGEDOWN" :> [op |-> "modifyPersistence", diff |-> Rat(-1, 10)]
    @@ "K_HOME" :> [op |-> "modifyXScale", diff |-> Int2Rat(5)]
    @@ "K_END" :> [op |-> "modifyXScale", diff |-> Int2Rat(-5)]
    @@ "K_LEFT" :> [op |-> "_modifyPan", diff |-> Int2Rat(panSpeed)]
    @@ "K_RIGHT" :> [op |-> "_modifyPan", diff |-> Int2Rat(-panSpeed)]

\* self._keyDownHandlers
keyDownHandlers ==
    "K_LEFT" :> [op |-> "_modifyPan", diff |-> Int2Rat(-panSpeed)]
    @@ "K_RIGHT" :> [op |-> "_modifyPan", diff |-> Int2Rat(panSpeed)]

\* the handler _handleEvents finds for an event; "pass" when the event is of
\* another type or the lookup raises KeyError
handlerOf(e) ==
    IF e.type = "KEYUP" /\ e.key \in DOMAIN keyUpHandlers THEN keyUpHandlers[e.key]
    ELSE IF e.type = "KEYDOWN" /\ e.key \in DOMAIN keyDownHandlers
         THEN keyDownHandlers[e.key]
         ELSE [op |-> "pass", diff |-> Int2Rat(0)]

Max(a, b) == IF a >= b THEN a ELSE b

\* the octave count without the lower limit
newOctavesUnclamped(o, diff) == o + diff

\* modifyOctaves: max(1, self.octaves + diff)
newOctaves(o, diff) == Max(1, o + diff)

\* _reloadGen: perlin.Perlin(self.octaves, self.persistence)
reloadGen(o, p) == PerlinInit(o, p, DefaultSalt)

\* the loop of go never left
loopContinuesAlways(d) == TRUE

\* go: while not self._done
loopContinues(d) == ~d

\* render: scale = 10*self._scale, the divisor of the sample coordinate
renderDivisor(s) == 10 * s

\* render raises ZeroDivisionError: in (x+offset)/scale, or in noise
renderRaises(s, g) == renderDivisor(s) = 0 \/ noiseRaises(g)

\* the settings an event of handler h would leave are within the bounds
WithinBounds(h) ==
    CASE h.op = "modifyOctaves" -> octaves + h.diff.n <= MaxViewOctaves
      [] h.op = "modifyPersistence" ->
           LET p == RatAdd(persistence, h.diff)
           IN  /\ RatLeq(p, RatAdd(InitPersistence, Rat(MaxPersistenceSteps, 10)))
               /\ RatLeq(RatSub(InitPersistence, Rat(MaxPersistenceSteps, 10)), p)
      [] h.op = "modifyXScale" ->
           Abs(scale + h.diff.n - InitScale) <= 5 * MaxScaleSteps
      [] h.op = "_modifyPan" ->
           Abs(currentPanSpeed + h.diff.n) <= MaxPanKeys * panSpeed
      [] OTHER -> TRUE

\* go: the loop test
While ==
    /\ pc = "while"
    /\ pc' = IF loopContinues(done) THEN "events" ELSE "exited"
    /\ UNCHANGED <<octaves, persistence, scale, done, currentPanSpeed, isPanning,
                   lastPanTime, offset, pending>>
    /\ UNCHANGED noiseVars

\* _handleEvents: the fetch of the events
Fetch ==
    /\ pc = "events"
    /\ IF isPanning THEN pending' \in 0..MaxBatch ELSE pending' = 1
    /\ pc' = IF pending' = 0 THEN "pan" ELSE "dispatch"
    /\ UNCHANGED <<octaves, persistence, scale, done, currentPanSpeed, isPanning,
                   lastPanTime, offset>>
    /\ UNCHANGED noiseVars

\* _handleEvents: one turn of its for loop, on the event e
Dispatch(e) ==
    /\ pc = "dispatch"
    /\ pending > 0
    /\ WithinBounds(handlerOf(e))
    /\ pending' = pending - 1
    /\ pc' = IF pending' = 0 THEN "pan" ELSE "dispatch"
    /\ LET h == handlerOf(e)
       IN  CASE h.op = "_quit" ->
                  /\ done' = TRUE
                  /\ UNCHANGED <<octaves, persistence, scale, currentPanSpeed,
                                 isPanning, lastPanTime, ctor, gen>>
             [] h.op = "modifyOctaves" ->
                  /\ octaves' = newOctaves(octaves, h.diff.n)
                  /\ gen' = reloadGen(octaves', persistence)
                  /\ ctor' = [octaves |-> octaves', persistence |-> persistence,
                              salt |-> DefaultSalt]
                  /\ UNCHANGED <<persistence, scale, done, currentPanSpeed,
                                 isPanning, lastPanTime>>
             [] h.op = "modifyPersistence" ->
                  /\ persistence' = RatAdd(persistence, h.diff)
                  /\ gen' = reloadGen(octaves, persistence')
                  /\ ctor' = [octaves |-> octaves, persistence |-> persistence',
                              salt |-> DefaultSalt]
                  /\ UNCHANGED <<octaves, scale, done, currentPanSpeed,
                                 isPanning, lastPanTime>>
             [] h.op = "modifyXScale" ->
                  /\ scale' = scale + h.diff.n
                  /\ UNCHANGED <<octaves, persistence, done, currentPanSpeed,
                                 isPanning, lastPanTime, ctor, gen>>
             [] h.op = "_modifyPan" ->
                  /\ currentPanSpeed' = currentPanSpeed + h.diff.n
                  /\ isPanning' = ~RatLeq(Int2Rat(Abs(currentPanSpeed')), PAN_EPSILON)
                  /\ lastPanTime' = 0
                  /\ UNCHANGED <<octaves, persistence, scale, done, ctor, gen>>
             [] h.op = "pass" ->
                  UNCHANGED <<octaves, persistence, scale, done, currentPanSpeed,
                              isPanning, lastPanTime, ctor, gen>>
    /\ UNCHANGED <<offset, call, hcall>>

\* _pan
Pan ==
    /\ pc = "pan"
    /\ pc' = "render"
    /\ IF ~isPanning THEN UNCHANGED <<lastPanTime, offset>>
       ELSE IF lastPanTime = 0
            THEN lastPanTime' = 1 /\ UNCHANGED offset
            ELSE \E delta \in 0..MaxDelta :
                    LET moved == RatAdd(offset, Rat(currentPanSpeed * delta, 1000))
                    IN  /\ RatLeq(moved, Int2Rat(MaxOffset))
                        /\ RatLeq(Int2Rat(-MaxOffset), moved)
                        /\ offset' = IF delta > 0 THEN moved ELSE offset
                        /\ lastPanTime' = 1
    /\ UNCHANGED <<octaves, persistence, scale, done, currentPanSpeed, isPanning,
                   pending>>
    /\ UNCHANGED noiseVars

\* _render of the frame, which ends the turn of the loop
Render ==
    /\ pc = "render"
    /\ pc' = IF renderRaises(scale, gen) THEN "crashed" ELSE "while"
    /\ UNCHANGED <<octaves, persistence, scale, done, currentPanSpeed, isPanning,
                   lastPanTime, offset, pending>>
    /\ UNCHANGED noiseVars

InitViewer ==
    /\ ViewerInit
    /\ ctor = [octaves |-> InitOctaves, persistence |-> InitPersistence,
               salt |-> DefaultSalt]
    /\ gen = reloadGen(InitOctaves, InitPersistence)
    /\ call = <<>>
    /\ hcall = NoHashCall

NextViewer ==
    \/ While
    \/ Fetch
    \/ \E e \in Events : Dispatch(e)
    \/ Pan
    \/ Render

SpecViewer == InitViewer /\ [][NextViewer]_vars

\* The loop of go runs on its own thread of control: a fetched batch is
\* dispatched to its end, and the pan step, the render and the loop test
\* follow.  Only the fetch may wait for the environment.
FairViewer ==
    /\ SpecViewer
    /\ WF_vars(\E e \in Events : Dispatch(e))
    /\ WF_vars(Pan)
    /\ WF_vars(Render)
    /\ WF_vars(While)

(***************************************************************************)
(* Properties of the generator.                                            *)
(***************************************************************************)
Half == Rat(1, 2)

\* C1: for every octave count >= 1 and every persistence, negative ones and
\* ones above 1 included, noise(x) returns a number: the amplitude sum maxY
\* it divides by is never zero, so no call ends in a division error.
C1_NoDivisionError ==
    \A t \in DOMAIN call :
        /\ call[t].pc # "raised"
        /\ call[t].pc = "l46" => call[t].maxY.n # 0

\* C2: for persistence in (0,1], every octave count and every coordinate of
\* the grid, a returned noise value lies in [-1/2, 1/2].
C2_RangeBound ==
    \A t \in DOMAIN call :
        (/\ call[t].pc = "done"
         /\ gen.persistence.n > 0
         /\ RatLeq(gen.persistence, Int2Rat(1)))
        => /\ RatLeq(RatNeg(Half), call[t].ret)
           /\ RatLeq(call[t].ret, Half)

C2_Witness ==
    \E t \in DOMAIN call :
        /\ call[t].pc = "done"
        /\ gen.octaves = 8
        /\ gen.persistence = Rat(3, 4)
        /\ call[t].x.n < 0
        /\ call[t].ret.n # 0

\* C3: at every integer n the single-octave value is exactly 0, so noise(n)
\* with one octave returns 0 for any salt and persistence; and the formula of
\* the cell [n-1, n] evaluated at n gives the same 0 as the formula of the
\* cell [n, n+1] evaluated at n.
C3_LatticeZero ==
    \A t \in DOMAIN call :
        LET f == call[t]
        IN  f.x.d = 1 =>
              /\ octave(gen, f.x) = Int2Rat(0)
              /\ octaveOn(gen, f.x.n, f.x) = Int2Rat(0)
              /\ octaveOn(gen, f.x.n - 1, f.x) = Int2Rat(0)
              /\ (Returned(f) /\ gen.octaves = 1) =>
                     (f.pc = "done" /\ f.ret = Int2Rat(0))

C3_Witness ==
    \E t \in DOMAIN call :
        /\ call[t].x.d = 1
        /\ call[t].x.n < 0
        /\ call[t].pc = "done"
        /\ gen.octaves = 1
        /\ gen.salt # 1
        /\ gen.persistence.n < 0

\* C4: every table lookup of a single-octave evaluation, for negative
\* coordinates too and at every octave frequency, uses an index in 0..255,
\* which is inside the 257-entry table.
C4_LookupsInTable ==
    /\ Len(gen.perm) = 257
    /\ \A t \in DOMAIN call :
          /\ call[t].lookups \subseteq 0..255
          /\ \A i \in call[t].lookups : (i + 1) \in DOMAIN gen.perm

C4_Witness ==
    \E t \in DOMAIN call :
        /\ call[t].pc = "done"
        /\ call[t].x.n < 0
        /\ gen.octaves > 1
        /\ {255, 0} \subseteq call[t].lookups

\* C5: every interleaving of concurrent noise calls on one generator gives
\* each call the result (and the locals) it has when run alone, and leaves
\* the generator as it was constructed: salt, octave count, persistence,
\* hash variant and permutation table.
C5_Isolation ==
    LET built == PerlinInit(ctor.octaves, ctor.persistence, ctor.salt)
    IN  /\ gen = built
        /\ \A t \in DOMAIN call :
              Returned(call[t]) => call[t] = noiseAlone(built, call[t].x)

C5_Witness ==
    \E t, u \in DOMAIN call :
        /\ call[t].pc = "done"
        /\ call[u].pc = "l43"
        /\ call[u].octave = 1
        /\ call[t].x # call[u].x
        /\ call[t].ret.n # 0

\* _grad through the salted path of the class
gradSalted(self, xi, x) ==
    IF gradTest(salted_xs32(self, xi)) THEN x ELSE RatNeg(x)

\* C6: the hash path selected at construction is not observable: a generator
\* built with salt 1 runs the unsalted path, and computes for every table
\* value the hash and the gradient sign the salted path computes with salt
\* 1; with any other salt the salted path is the one in use.
C6_PathSelection ==
    /\ gen.salt = 1 => gen.xs32 = "unsalted"
    /\ gen.salt # 1 => gen.xs32 = "salted"
    /\ hcall.pc = "done" =>
          /\ hcall.hash = salted_xs32(gen, hcall.xi)
          /\ hcall.ret = gradSalted(gen, hcall.xi, hcall.x)

C6_Witness ==
    /\ hcall.pc = "done"
    /\ gen.salt = 1
    /\ gen.xs32 = "unsalted"
    /\ hcall.xi = 255

\* the low 32 bits of a bit vector, as an unsigned number
Mask32(a) == [neg |-> FALSE, bits |-> {i \in 0..31 : BitAt(a, i)}]

\* the three xorshift steps with 32-bit wraparound
xs32Wrapped(x) ==
    LET x0 == Mask32(x)
        x1 == Mask32(BitXor(x0, Mask32(ShiftRight(x0, 13))))
        x2 == Mask32(BitXor(x1, Mask32(ShiftLeft(x1, 17))))
        x3 == Mask32(BitXor(x2, Mask32(ShiftRight(x2, 5))))
    IN  x3

\* C9: for every table value and every salt of the set, the lowest bit of
\* the hash computed on unbounded integers equals the lowest bit of the same
\* steps computed with 32-bit wraparound, so _grad returns the same value
\* under both.
C9_WidthIndependent ==
    hcall.pc = "done" =>
        LET w == xs32Wrapped(Bits(hcall.xi * gen.salt))
        IN  /\ BitAt(hcall.hash, 0) = BitAt(w, 0)
            /\ hcall.ret = (IF gradTest(w) THEN hcall.x ELSE RatNeg(hcall.x))

C9_Witness ==
    /\ hcall.pc = "done"
    /\ gen.salt < 0
    /\ hcall.hash # xs32Wrapped(Bits(hcall.xi * gen.salt))
    /\ BitAt(hcall.hash, 0)
    /\ \E i \in hcall.hash.bits : i > 31

(***************************************************************************)
(* Properties of the viewer.                                               *)
(***************************************************************************)
\* C7: after any sequence of Up/Down and PgUp/PgDn key events the generator
\* render uses was built with the renderer's current octave count and
\* persistence, and that octave count is at least 1.
C7_GeneratorCurrent ==
    /\ gen.octaves = octaves
    /\ gen.persistence = persistence
    /\ octaves >= 1

C7_Witness ==
    /\ pc = "render"
    /\ octaves = 1
    /\ persistence = Rat(2, 5)
    /\ gen = PerlinInit(1, Rat(2, 5), 1)

Terminated == pc \in {"exited", "crashed"}

C10_DivisorNonzero ==
    /\ pc = "render" => renderDivisor(scale) # 0
    /\ pc # "crashed"
====
